---- MODULE Spec2Model ----
(***************************************************************************)
(* One run of scripts/deploy_esp/flash_usb.py: run_main -> main ->         *)
(* check_preconditions, get_config, choose_profile, choose_bios,           *)
(* generate_command, run_flash_usb_script.                                 *)
(*                                                                         *)
(* URLs are sequences of one-character strings, so that startswith,        *)
(* endswith, the substring test and lower() are computed as the code       *)
(* computes them.  Filesystem paths are sequences of components, as        *)
(* pathlib's Path.parts.  The facts of the environment a step reads (uid,  *)
(* existence of a file, the answer typed at a prompt, the child's exit     *)
(* status, the arrival of SIGINT) are chosen when the step reads them.     *)
(***************************************************************************)
EXTENDS Integers, Sequences, FiniteSets, TLC

\* ---------------------------------------------------------------- bounds
MaxProfiles == 2    \* longest profiles list of a configuration
MaxPolls == 2       \* polls of a still running child that are counted

\* ------------------------------------------------------------ characters
None == <<"None">>

Lower(c) ==
    CASE c = "H" -> "h"
      [] c = "T" -> "t"
      [] c = "P" -> "p"
      [] c = "S" -> "s"
      [] OTHER -> c

\* str.lower()
LowerStr(s) == [i \in 1..Len(s) |-> Lower(s[i])]

\* str.startswith(p)
StartsWith(s, p) == Len(s) >= Len(p) /\ SubSeq(s, 1, Len(p)) = p

\* str.endswith(p)
EndsWith(s, p) == Len(s) >= Len(p) /\ SubSeq(s, Len(s) - Len(p) + 1, Len(s)) = p

\* p in s
Contains(s, p) ==
    \E i \in 1..(Len(s) - Len(p) + 1) : SubSeq(s, i, i + Len(p) - 1) = p

SchemeChars == {"h", "t", "p", "s", "f", "x", "H", "T", "P", "S", "-", "."}

\* urllib.parse.urlparse(url).scheme: the characters before the first ':'
\* when there are some and all of them are scheme characters, lower-cased;
\* the empty string otherwise.
Scheme(url) ==
    LET colons == {i \in 1..Len(url) : url[i] = ":"}
    IN  IF colons = {} THEN <<>>
        ELSE LET i == CHOOSE k \in colons : \A j \in colons : k <= j
             IN  IF i > 1 /\ \A j \in 1..(i - 1) : url[j] \in SchemeChars
                   THEN LowerStr(SubSeq(url, 1, i - 1))
                   ELSE <<>>

\* urlparse(url).geturl(): the URL with its scheme lower-cased.
GetUrl(url) ==
    LET sch == Scheme(url)
    IN  IF sch = <<>> THEN url
        ELSE sch \o SubSeq(url, Len(sch) + 1, Len(url))

S_http == <<"h", "t", "t", "p">>
S_https == <<"h", "t", "t", "p", "s">>
S_img == <<".", "i", "m", "g">>
S_bios == <<"-", "b", "i", "o", "s">>
S_efi == <<"-", "e", "f", "i">>

\* the URLs a run may be given
U_http == <<"h","t","t","p",":","/","/","h","/","a","-","e","f","i",".","i","m","g">>
U_https == <<"h","t","t","p","s",":","/","/","h","/","a","-","b","i","o","s",".","i","m","g">>
U_upper == <<"H","T","T","P",":","/","/","h","/","a","-","e","f","i",".","i","m","g">>
U_ftp == <<"f","t","p",":","/","/","x","/","y",".","i","m","g">>
U_httpx == <<"h","t","t","p","x",":","/","/","h","/","a","-","e","f","i",".","i","m","g">>
U_bare == <<"h","t","t","p","-","e","f","i",".","i","m","g">>
U_iso == <<"h","t","t","p",":","/","/","h","/","a","-","e","f","i",".","i","s","o">>
U_plain == <<"h","t","t","p",":","/","/","h","/","a",".","i","m","g">>
U_empty == <<>>

Urls == {U_http, U_https, U_upper, U_ftp, U_httpx, U_bare, U_iso, U_plain, U_empty}

\* ------------------------------------------------------------ exceptions
NoExc == [type |-> "none", code |-> "none", kind |-> "none"]

\* seo.error.AppException(code, msg); kind names the message
AppException(code, kind) == [type |-> "AppException", code |-> code, kind |-> kind]

\* an exception of another class
OtherException(type, kind) == [type |-> type, code |-> "none", kind |-> kind]

\* seo.error.Codes members that end a run
ErrorCodes == {"MISSING_PREREQUISITE", "ARGUMENT_ERROR", "CONFIG_ERROR", "RUNTIME_ERROR"}

\* ------------------------------------------------------------------ state
VARIABLES
    args,        \* parsed arguments: dev_path, image_url
    cfg,         \* the configuration document
    pc,          \* position of the run
    exc,         \* the exception that is propagating, NoExc when none
    exit,        \* how the process ended: [how, code]
    profile,     \* choose_profile's result
    bios,        \* choose_bios's result
    image_path,  \* the path generate_command tested for existence
    cmd,         \* the command list
    prompts,     \* the prompts issued and what was typed at each, in order
    urlChecks,   \* the URL checks check_preconditions reached, in order
    stages,      \* the stages of main that completed, in order
    child,       \* "none", "running", "exited" (not reaped), "reaped"
    childStatus, \* the child's exit status
    childPgid,   \* the child's process group
    polls,       \* polls that found the child running
    spawns,      \* child processes started
    intrAt,      \* the child's state when SIGINT arrived, "never" before
    lookups,     \* os.getpgid calls: the child's state at each
    signalled    \* processes that were sent SIGTERM by os.killpg

vars == <<args, cfg, pc, exc, exit, profile, bios, image_path, cmd, prompts,
          urlChecks, stages, child, childStatus, childPgid, polls, spawns,
          intrAt, lookups, signalled>>

\* the variables of the child process and its supervision
procVars == <<child, childStatus, childPgid, polls, spawns, intrAt, lookups, signalled>>

\* the variables of selection and command building
selVars == <<profile, bios, image_path, cmd, prompts>>

ProfileNames == <<"edge", "core", "lab", "farm">>

\* usb_images.output_path values, as Path.parts
OutputPaths == {<<"out">>, <<"/", "tmp", "out">>}

DevPaths == {None, <<"/", "dev", "sdc">>}

Configs ==
    [all_in_one : BOOLEAN, build : BOOLEAN, bios : BOOLEAN, efi : BOOLEAN,
     profiles : {SubSeq(ProfileNames, 1, n) : n \in 0..MaxProfiles},
     output_path : OutputPaths,
     dest_dir : {<<"esp">>}]

NoExit == [how |-> "running", code |-> "none"]

Init ==
    /\ args \in [dev_path : DevPaths, image_url : Urls \cup {None}]
    /\ cfg \in Configs
    /\ pc = "check_preconditions"
    /\ exc = NoExc
    /\ exit = NoExit
    /\ profile = "none"
    /\ bios = "none"
    /\ image_path = <<>>
    /\ cmd = <<>>
    /\ prompts = <<>>
    /\ urlChecks = <<>>
    /\ stages = <<>>
    /\ child = "none"
    /\ childStatus = 0
    /\ childPgid = "none"
    /\ polls = 0
    /\ spawns = 0
    /\ intrAt = "never"
    /\ lookups = <<>>
    /\ signalled = {}

\* `if args.image_url:` -- None and the empty string are both false
UrlGiven == args.image_url # None /\ args.image_url # <<>>

\* raise e: the exception propagates out of main
Raise(e) == pc' = "raised" /\ exc' = e

\* --------------------------------------------------- check_preconditions
\* urllib.request.urlopen(url, timeout=1): a URL without a scheme raises
\* ValueError, a scheme without a handler raises URLError, an http(s) URL
\* is answered or not.
UrlOpen(url, reachable) ==
    IF Scheme(url) = <<>> THEN "ValueError"
    ELSE IF Scheme(url) \notin {S_http, S_https} THEN "URLError"
    ELSE IF reachable THEN "ok" ELSE "URLError"

SchemeTest(url) == StartsWith(LowerStr(url), S_http)

\* the URL checks check_preconditions reaches for url, in order, and the
\* exception it raises (NoExc when every check passes)
UrlResult(url, reachable) ==
    IF ~SchemeTest(url)
      THEN [checks |-> <<"scheme">>, exc |-> AppException("ARGUMENT_ERROR", "BadUrlScheme")]
    ELSE IF ~EndsWith(LowerStr(url), S_img)
      THEN [checks |-> <<"scheme", "extension">>,
            exc |-> AppException("ARGUMENT_ERROR", "BadUrlExtension")]
    ELSE IF ~Contains(url, S_bios) /\ ~Contains(url, S_efi)
      THEN [checks |-> <<"scheme", "extension", "naming">>,
            exc |-> AppException("ARGUMENT_ERROR", "BadUrlNaming")]
    ELSE [checks |-> <<"scheme", "extension", "naming", "probe">>,
          exc |-> CASE UrlOpen(url, reachable) = "ok" -> NoExc
                    [] UrlOpen(url, reachable) = "URLError" ->
                          AppException("ARGUMENT_ERROR", "UrlUnreachable")
                    [] OTHER -> OtherException("ValueError", "UnknownUrlType")]

check_preconditions ==
    /\ pc = "check_preconditions"
    /\ \E uid \in {0, 1000}, devExists \in BOOLEAN, reachable \in BOOLEAN :
         IF uid # 0 THEN
            /\ Raise(AppException("MISSING_PREREQUISITE", "MissingPrivilege"))
            /\ UNCHANGED <<urlChecks, stages>>
         ELSE IF args.dev_path = None THEN
            /\ Raise(AppException("MISSING_PREREQUISITE", "MissingDevicePath"))
            /\ UNCHANGED <<urlChecks, stages>>
         ELSE IF ~devExists THEN
            /\ Raise(AppException("MISSING_PREREQUISITE", "DeviceNotFound"))
            /\ UNCHANGED <<urlChecks, stages>>
         ELSE IF UrlGiven THEN
            LET r == UrlResult(GetUrl(args.image_url), reachable)
            IN  /\ urlChecks' = r.checks
                /\ IF r.exc = NoExc
                     THEN /\ pc' = "get_config"
                          /\ stages' = Append(stages, "preconditions")
                          /\ UNCHANGED exc
                     ELSE Raise(r.exc) /\ UNCHANGED stages
         ELSE
            /\ pc' = "get_config"
            /\ stages' = Append(stages, "preconditions")
            /\ UNCHANGED <<exc, urlChecks>>
    /\ UNCHANGED <<args, cfg, exit, selVars, procVars>>

\* ------------------------------------------------------------ get_config
get_config ==
    /\ pc = "get_config"
    /\ \E load \in {"ok", "unreadable", "YAMLError"} :
         CASE load = "ok" ->
                /\ pc' = "select"
                /\ stages' = Append(stages, "config")
                /\ UNCHANGED exc
           [] load = "unreadable" ->
                /\ Raise(AppException("ARGUMENT_ERROR", "ConfigFileUnreadable"))
                /\ UNCHANGED stages
           [] OTHER ->
                /\ Raise(AppException("CONFIG_ERROR", "ConfigFormatError"))
                /\ UNCHANGED stages
    /\ UNCHANGED <<args, cfg, exit, selVars, urlChecks, procVars>>

\* ---------------------------------------------- main, `if url := ...` arm
direct_url ==
    /\ pc = "select"
    /\ UrlGiven
    /\ cmd' = <<"./flashusb.sh", "-d", args.dev_path, "-u", args.image_url>>
    /\ stages' = Append(stages, "command")
    /\ pc' = "run_flash_usb_script"
    /\ UNCHANGED <<args, cfg, exc, exit, profile, bios, image_path, prompts,
                   urlChecks, procVars>>

\* --------------------------------------------------------- choose_profile
\* what is typed at the profile prompt: an integer literal or other text
ProfileInputs ==
    [kind : {"int"}, val : (0 - 1)..(MaxProfiles + 1)] \cup {[kind |-> "text", val |-> 0]}

\* choose_profile with the range test `profile_choice < 0`: index 0 then
\* reads profiles[-1], the last profile
ProfileFor_m(config, inp) ==
    IF config.all_in_one THEN "all"
    ELSE IF inp.kind # "int" THEN "none"
    ELSE IF inp.val < 0 \/ inp.val > Len(config.profiles) THEN "none"
    ELSE IF config.profiles = <<>> THEN "none"
    ELSE config.profiles[IF inp.val = 0 THEN Len(config.profiles) ELSE inp.val]

\* the profile choose_profile returns for input inp, "none" when it raises
ProfileFor(config, inp) ==
    IF config.all_in_one THEN "all"
    ELSE IF inp.kind # "int" THEN "none"
    ELSE IF inp.val < 1 \/ inp.val > Len(config.profiles) THEN "none"
    ELSE config.profiles[inp.val]

choose_profile ==
    /\ pc = "select"
    /\ ~UrlGiven
    /\ \E inp \in ProfileInputs :
         /\ prompts' = IF cfg.all_in_one THEN prompts
                       ELSE Append(prompts, [what |-> "profile", kind |-> inp.kind,
                                             val |-> inp.val, text |-> ""])
         /\ IF ProfileFor(cfg, inp) = "none"
              THEN /\ Raise(AppException("ARGUMENT_ERROR", "InvalidProfileChoice"))
                   /\ UNCHANGED <<profile, stages>>
              ELSE /\ profile' = ProfileFor(cfg, inp)
                   /\ stages' = Append(stages, "profile")
                   /\ pc' = "choose_bios"
                   /\ UNCHANGED exc
    /\ UNCHANGED <<args, cfg, exit, bios, image_path, cmd, urlChecks, procVars>>

\* ------------------------------------------------------------ choose_bios
BiosInputs == {"bios", "efi", "uefi", "BIOS"}

\* choose_bios without its final else arm
BiosError_m(usb_config, inp) ==
    IF ~usb_config.build THEN AppException("CONFIG_ERROR", "BuildDisabled")
    ELSE IF usb_config.bios /\ usb_config.efi THEN
        IF inp \notin {"bios", "efi"}
          THEN AppException("ARGUMENT_ERROR", "InvalidBiosChoice")
          ELSE NoExc
    ELSE NoExc

\* the exception choose_bios raises for input inp, NoExc when it returns
BiosError(usb_config, inp) ==
    IF ~usb_config.build THEN AppException("CONFIG_ERROR", "BuildDisabled")
    ELSE IF usb_config.bios /\ usb_config.efi THEN
        IF inp \notin {"bios", "efi"}
          THEN AppException("ARGUMENT_ERROR", "InvalidBiosChoice")
          ELSE NoExc
    ELSE IF usb_config.bios THEN NoExc
    ELSE IF usb_config.efi THEN NoExc
    ELSE AppException("CONFIG_ERROR", "NoBiosTypeConfigured")

\* choose_bios taking the typed answer whatever the configuration
BiosFor_m(usb_config, inp) == inp

\* the bios type choose_bios returns when it returns
BiosFor(usb_config, inp) ==
    IF usb_config.bios /\ usb_config.efi THEN inp
    ELSE IF usb_config.bios THEN "bios"
    ELSE "efi"

choose_bios ==
    /\ pc = "choose_bios"
    /\ \E inp \in BiosInputs :
         /\ prompts' = IF cfg.build /\ cfg.bios /\ cfg.efi
                         THEN Append(prompts, [what |-> "bios", kind |-> "text",
                                               val |-> 0, text |-> inp])
                         ELSE prompts
         /\ IF BiosError(cfg, inp) # NoExc
              THEN /\ Raise(BiosError(cfg, inp))
                   /\ UNCHANGED <<bios, stages>>
              ELSE /\ bios' = BiosFor(cfg, inp)
                   /\ stages' = Append(stages, "bios")
                   /\ pc' = "generate_command"
                   /\ UNCHANGED exc
    /\ UNCHANGED <<args, cfg, exit, profile, image_path, cmd, urlChecks, procVars>>

\* ------------------------------------------------------- generate_command
\* workdir / f"{profile}-{bios}.img"
ImagePath(output_path, prof, bt) == Append(output_path, prof \o "-" \o bt \o ".img")

\* f"../{str(image_path)}", as the components the string names
ImageArg(path) == <<"..">> \o (IF path[1] = "/" THEN Tail(path) ELSE path)

\* the directory main runs in
Cwd == <<"/", "work">>

RECURSIVE Collapse(_, _)
\* path lookup: the components of rest followed from directory at
Collapse(at, rest) ==
    IF rest = <<>> THEN at
    ELSE IF Head(rest) = ".."
      THEN Collapse(IF Len(at) > 1 THEN SubSeq(at, 1, Len(at) - 1) ELSE at, Tail(rest))
      ELSE Collapse(Append(at, Head(rest)), Tail(rest))

\* the file a path names for a process whose working directory is dir
FileOf(dir, path) ==
    IF path # <<>> /\ path[1] = "/" THEN Collapse(<<"/">>, Tail(path))
    ELSE Collapse(dir, path)

generate_command ==
    /\ pc = "generate_command"
    /\ image_path' = ImagePath(cfg.output_path, profile, bios)
    /\ \E exists \in BOOLEAN :
         IF ~exists
           THEN /\ Raise(AppException("RUNTIME_ERROR", "ArtifactNotFound"))
                /\ UNCHANGED <<cmd, stages>>
           ELSE /\ cmd' = <<"./flashusb.sh", "-d", args.dev_path,
                            "-i", ImageArg(image_path'), "-b", bios>>
                /\ stages' = Append(stages, "command")
                /\ pc' = "run_flash_usb_script"
                /\ UNCHANGED exc
    /\ UNCHANGED <<args, cfg, exit, profile, bios, prompts, urlChecks, procVars>>

\* --------------------------------------------------- run_flash_usb_script
SupervisorGroup == "supervisor_group"
ForeignGroup == "foreign_group"

\* the process group of a child started by
\* subprocess.Popen(cmd, shell=True, cwd=workdir): no start_new_session,
\* process_group or preexec_fn is passed, so the child stays in the group
\* of the process that started it.
PopenGroup == SupervisorGroup

\* run_flash_usb_script with the workdir test after Popen
run_flash_usb_script_m ==
    /\ pc = "run_flash_usb_script"
    /\ \E workdirExists \in BOOLEAN :
         /\ child' = "running"
         /\ childPgid' = PopenGroup
         /\ spawns' = spawns + 1
         /\ IF ~workdirExists
              THEN /\ Raise(AppException("CONFIG_ERROR", "WorkdirNotFound"))
                   /\ UNCHANGED stages
              ELSE /\ stages' = Append(stages, "workdir")
                   /\ pc' = "poll_loop"
                   /\ UNCHANGED exc
    /\ UNCHANGED <<args, cfg, exit, selVars, urlChecks, childStatus, polls,
                   intrAt, lookups, signalled>>

\* the workdir test and Popen
run_flash_usb_script ==
    /\ pc = "run_flash_usb_script"
    /\ \E workdirExists \in BOOLEAN :
         IF ~workdirExists
           THEN /\ Raise(AppException("CONFIG_ERROR", "WorkdirNotFound"))
                /\ UNCHANGED <<stages, child, childPgid, spawns>>
           ELSE /\ stages' = Append(stages, "workdir")
                /\ child' = "running"
                /\ childPgid' = PopenGroup
                /\ spawns' = spawns + 1
                /\ pc' = "poll_loop"
                /\ UNCHANGED exc
    /\ UNCHANGED <<args, cfg, exit, selVars, urlChecks, childStatus, polls,
                   intrAt, lookups, signalled>>

\* the child process ends by itself
ExitStatuses == {0, 1}

child_exit ==
    /\ child = "running"
    /\ \E st \in ExitStatuses : childStatus' = st
    /\ child' = "exited"
    /\ UNCHANGED <<args, cfg, pc, exc, exit, selVars, urlChecks, stages,
                   childPgid, polls, spawns, intrAt, lookups, signalled>>

\* `while proc.poll() is None:` with the child running; proc.stdout is None
\* (no stdout=PIPE), so the body is `continue`
poll_running ==
    /\ pc = "poll_loop"
    /\ child = "running"
    /\ polls < MaxPolls
    /\ polls' = polls + 1
    /\ UNCHANGED <<args, cfg, pc, exc, exit, selVars, urlChecks, stages, child,
                   childStatus, childPgid, spawns, intrAt, lookups, signalled>>

\* `while proc.poll() is None:` with the child ended: poll reaps it
poll_exited ==
    /\ pc = "poll_loop"
    /\ child = "exited"
    /\ child' = "reaped"
    /\ pc' = "check_status"
    /\ UNCHANGED <<args, cfg, exc, exit, selVars, urlChecks, stages,
                   childStatus, childPgid, polls, spawns, intrAt, lookups, signalled>>

\* `if proc.poll() != 0: raise RuntimeError(...)`, then the return to main
check_status ==
    /\ pc = "check_status"
    /\ IF childStatus # 0
         THEN Raise(OtherException("RuntimeError", "ChildExecutionFailed"))
         ELSE pc' = "returned" /\ UNCHANGED exc
    /\ UNCHANGED <<args, cfg, exit, selVars, urlChecks, stages, procVars>>

\* SIGINT arrives while the supervisor is inside the try block
KeyboardInterrupt ==
    /\ pc \in {"poll_loop", "check_status"}
    /\ pc' = "except"
    /\ intrAt' = child
    /\ UNCHANGED <<args, cfg, exc, exit, selVars, urlChecks, stages, child,
                   childStatus, childPgid, polls, spawns, lookups, signalled>>

\* the processes a signal to group g reaches
Members(g) ==
    (IF g = SupervisorGroup THEN {"supervisor"} ELSE {})
      \cup (IF g = childPgid /\ child \in {"running", "exited"} THEN {"child"} ELSE {})
      \cup (IF g = ForeignGroup THEN {"foreign"} ELSE {})

\* `except KeyboardInterrupt`: os.killpg(os.getpgid(proc.pid), SIGTERM),
\* then raise RuntimeError("Interrupted by user").  The pid of a reaped
\* child is free: getpgid fails with ProcessLookupError, or answers for the
\* unrelated process that took the pid.  SIGTERM has its default
\* disposition in the supervisor, so a signal to the supervisor's own group
\* ends the supervisor inside killpg.
except_handler ==
    /\ pc = "except"
    /\ lookups' = Append(lookups, child)
    /\ \E reused \in BOOLEAN :
         IF child = "reaped" /\ ~reused
           THEN /\ Raise(OtherException("ProcessLookupError", "StalePid"))
                /\ UNCHANGED <<exit, signalled>>
           ELSE LET pgid == IF child = "reaped" THEN ForeignGroup ELSE childPgid
                IN  /\ signalled' = signalled \cup Members(pgid)
                    /\ IF "supervisor" \in Members(pgid)
                         THEN /\ pc' = "done"
                              /\ exit' = [how |-> "signal", code |-> "SIGTERM"]
                              /\ UNCHANGED exc
                         ELSE /\ Raise(OtherException("RuntimeError", "InterruptedByUser"))
                              /\ UNCHANGED exit
    /\ UNCHANGED <<args, cfg, selVars, urlChecks, stages, child, childStatus,
                   childPgid, polls, spawns, intrAt>>

\* --------------------------------------------------------------- run_main
\* sys.exit(main(args).value), `except seo.error.AppException`
run_main ==
    /\ pc \in {"raised", "returned"}
    /\ exit' = IF pc = "returned" THEN [how |-> "exit", code |-> "NO_ERROR"]
               ELSE IF exc.type = "AppException" THEN [how |-> "exit", code |-> exc.code]
               ELSE [how |-> "uncaught", code |-> exc.type]
    /\ pc' = "done"
    /\ UNCHANGED <<args, cfg, exc, selVars, urlChecks, stages, procVars>>

Next ==
    \/ check_preconditions
    \/ get_config
    \/ direct_url
    \/ choose_profile
    \/ choose_bios
    \/ generate_command
    \/ run_flash_usb_script
    \/ child_exit
    \/ poll_running
    \/ poll_exited
    \/ check_status
    \/ KeyboardInterrupt
    \/ except_handler
    \/ run_main

Spec == Init /\ [][Next]_vars

\* ================================================================= claims
Done == pc = "done"

\* the run ended with exit code NO_ERROR
Succeeded == Done /\ exit = [how |-> "exit", code |-> "NO_ERROR"]

\* C1: a run that was interrupted while its child was still running has
\* sent SIGTERM to the child's process group and ends with the
\* InterruptedByUser outcome.
C1_InterruptedOutcome ==
    (Done /\ intrAt = "running") =>
        /\ "child" \in signalled
        /\ exc.kind = "InterruptedByUser"
        /\ exit.how # "signal"

\* C2: the child runs in a process group of its own, distinct from the
\* supervisor's, and the group-wide SIGTERM reaches the child's subtree
\* only, never the supervisor and never an unrelated process.
C2_OwnProcessGroup ==
    /\ child # "none" => childPgid # SupervisorGroup
    /\ signalled \subseteq {"child"}

\* C3: a run that fails with ChildExecutionFailed or InterruptedByUser, like
\* every failed run, ends through run_main's AppException handler with one
\* of the four error codes.
C3_StructuredExit ==
    (Done /\ exc.kind \in {"ChildExecutionFailed", "InterruptedByUser"}) =>
        /\ exc.type = "AppException"
        /\ exit.how = "exit"
        /\ exit.code \in ErrorCodes

\* selection resolution ran (no URL was given) and is over
ResolutionEnded ==
    /\ ~UrlGiven
    /\ Len(stages) >= 2
    /\ pc \notin {"select", "choose_bios"}

\* C4 as stated: with bios and efi both false, resolution fails with
\* NoBiosTypeConfigured whatever the profile state.
C4_Original ==
    (ResolutionEnded /\ ~cfg.bios /\ ~cfg.efi) => exc.kind = "NoBiosTypeConfigured"

\* C4 as amended: with bios and efi both false, resolution always fails; it
\* fails with NoBiosTypeConfigured when the profile was resolved and build
\* is true, with InvalidProfileChoice when the profile choice was rejected,
\* and with BuildDisabled when the profile was resolved and build is false.
C4_NoBiosTypeConfigured ==
    (ResolutionEnded /\ ~cfg.bios /\ ~cfg.efi) =>
        /\ pc \in {"raised", "done"}
        /\ bios = "none"
        /\ cmd = <<>>
        /\ exc.kind = IF profile = "none" THEN "InvalidProfileChoice"
                      ELSE IF ~cfg.build THEN "BuildDisabled"
                      ELSE "NoBiosTypeConfigured"

C4_Witness ==
    /\ ~cfg.bios /\ ~cfg.efi /\ ~cfg.all_in_one
    /\ profile = "core"
    /\ exc.kind = "NoBiosTypeConfigured"
    /\ exit = [how |-> "exit", code |-> "CONFIG_ERROR"]

\* C5: the -i argument of a command built by generate_command names, for
\* the child that runs in esp.dest_dir, exactly the file
\* output_path/{profile}-{bios}.img that was tested for existence, and the
\* -b argument is the bios type.
C5_ImageArgument ==
    (~UrlGiven /\ cmd # <<>>) =>
        /\ image_path = ImagePath(cfg.output_path, profile, bios)
        /\ FileOf(FileOf(Cwd, cfg.dest_dir), cmd[5]) = FileOf(Cwd, image_path)
        /\ cmd[7] = bios

BiosErrorKinds ==
    {"BuildDisabled", "NoBiosTypeConfigured", "InvalidProfileChoice",
     "InvalidBiosChoice", "ArtifactNotFound"}

\* C6: a command handed to the supervisor is ./flashusb.sh -d <device>
\* followed by -u <url> when a URL was given and by -i <image> -b <bios>
\* otherwise; with a URL no prompt is issued and no profile, BIOS or
\* artifact error occurs.
C6_CommandForm ==
    /\ cmd # <<>> =>
         /\ SubSeq(cmd, 1, 2) = <<"./flashusb.sh", "-d">>
         /\ cmd[3] = args.dev_path
         /\ cmd[3] # None
         /\ IF UrlGiven
              THEN /\ Len(cmd) = 5
                   /\ cmd[4] = "-u"
                   /\ cmd[5] = args.image_url
              ELSE /\ Len(cmd) = 7
                   /\ cmd[4] = "-i"
                   /\ cmd[5][Len(cmd[5])] = profile \o "-" \o bios \o ".img"
                   /\ cmd[6] = "-b"
                   /\ cmd[7] = bios
                   /\ cmd[7] \in {"bios", "efi"}
    /\ child # "none" => cmd # <<>>
    /\ UrlGiven =>
         /\ prompts = <<>>
         /\ profile = "none" /\ bios = "none"
         /\ exc.kind \notin BiosErrorKinds

C6_Witness ==
    /\ child = "running"
    /\ UrlGiven
    /\ cmd[4] = "-u"

\* a second reached case of C6: the profile/BIOS form with a typed bios type
C6_WitnessProfileForm ==
    /\ child = "running"
    /\ Len(cmd) = 7
    /\ Len(prompts) = 2

\* C7: a URL whose scheme is neither http nor https fails with BadUrlScheme
\* and reaches no check after the scheme check.
C7_BadUrlScheme ==
    (UrlGiven /\ urlChecks # <<>> /\ Scheme(args.image_url) \notin {S_http, S_https}) =>
        /\ exc.kind = "BadUrlScheme"
        /\ urlChecks = <<"scheme">>

\* a profile index outside [1, N] was entered at the profile prompt
OutOfRangeEntered ==
    \E i \in DOMAIN prompts :
        /\ prompts[i].what = "profile"
        /\ prompts[i].kind = "int"
        /\ (prompts[i].val < 1 \/ prompts[i].val > Len(cfg.profiles))

\* C8: with all_in_one false, an entered profile index outside [1, N] fails
\* with InvalidProfileChoice; no profile is selected and no later stage
\* runs.
C8_InvalidProfileChoice ==
    OutOfRangeEntered =>
        /\ ~cfg.all_in_one
        /\ exc = AppException("ARGUMENT_ERROR", "InvalidProfileChoice")
        /\ profile = "none"
        /\ bios = "none"
        /\ cmd = <<>>
        /\ spawns = 0
        /\ stages = <<"preconditions", "config">>
        /\ Len(prompts) = 1

C8_Witness ==
    /\ OutOfRangeEntered
    /\ Len(cfg.profiles) = MaxProfiles
    /\ prompts[1].val = MaxProfiles + 1
    /\ exit = [how |-> "exit", code |-> "ARGUMENT_ERROR"]

\* a second reached case of C8: index 0 with a non-empty profile list
C8_WitnessZero ==
    /\ OutOfRangeEntered
    /\ cfg.profiles # <<>>
    /\ prompts[1].val = 0
    /\ Done

\* the stages that precede a spawn
StagesBeforeSpawn ==
    IF UrlGiven THEN <<"preconditions", "config", "command", "workdir">>
    ELSE <<"preconditions", "config", "profile", "bios", "command", "workdir">>

\* C9: a child exists only after the precondition checks, selection,
\* command building and the workdir test have all succeeded, a missing
\* workdir fails before any spawn, there is at most one spawn per run, and
\* no step taken after a failure spawns.
C9_SpawnOnlyAfterChecks ==
    /\ [](/\ spawns <= 1
          /\ (child = "none") <=> (spawns = 0)
          /\ spawns = 1 => (stages = StagesBeforeSpawn /\ cmd # <<>>)
          /\ exc.kind = "WorkdirNotFound" => (spawns = 0 /\ child = "none")
          /\ (exc # NoExc /\ spawns = 0) => child = "none")
    /\ [][(exc # NoExc \/ exit # NoExit) => spawns' = spawns]_vars

C9_Witness ==
    /\ spawns = 1
    /\ Done
    /\ exc.kind = "ChildExecutionFailed"

\* a second reached case of C9: the workdir is missing
C9_WitnessNoWorkdir ==
    /\ exc.kind = "WorkdirNotFound"
    /\ Done
    /\ spawns = 0

\* C10: os.getpgid is never called on the pid of a child that poll has
\* reaped, and an interruption that arrives after a child with status 0 was
\* reaped leaves the run a success.
C10_NoStaleLookup ==
    /\ \A i \in DOMAIN lookups : lookups[i] # "reaped"
    /\ (Done /\ intrAt = "reaped" /\ childStatus = 0) => Succeeded
====
